---- MODULE Spec2Model ----
(***************************************************************************)
(* Optimized Simplified SWU map to the 3-isogenous curve E' of the         *)
(* BLS12-381 twist, the square-root division it rests on, and the          *)
(* 3-isogeny evaluation onto the twist                                     *)
(* (py_ecc/optimized_bls12_381/optimized_swu.py).                          *)
(*                                                                         *)
(* The file imports the field type FQ2 from py_ecc.fields and the constant *)
(* tables from .constants.  They are modelled here as follows:             *)
(*   - FQ2 is F_p[i]/(i^2 + 1), elements are pairs <<c0, c1>> = c0 + c1*i. *)
(*     BLS12-381's 381-bit p is outside TLC's integers, so the model       *)
(*     takes its place with p = 139, the smallest prime that has every     *)
(*     property of p and of the constants that the algorithm uses:         *)
(*       p = 11 (mod 16), hence p = 3 (mod 4) and p^2 = 9 (mod 16);        *)
(*       p = 1 (mod 3)  (the j = 0 twist is ordinary);                     *)
(*       Z = 1 + i is a non-square of FQ2;                                 *)
(*       x^3 + A*x + B has no root in FQ2 (E' has odd order);              *)
(*       g(B / (Z*A)) is a square of FQ2.                                  *)
(*   - A = 240i, B = 1012(1 + i) (line 24 of the source), Z = 1 + i and    *)
(*     the isogeny coefficients are the published numbers, which are       *)
(*     rationals in Z[i][1/3], reduced modulo p.                           *)
(***************************************************************************)
EXTENDS Integers, Sequences, FiniteSets

VARIABLES pc, inp, loc, ret

vars == <<pc, inp, loc, ret>>

(***************************************************************************)
(* Bounds of the model.                                                    *)
(***************************************************************************)
\* iso_map_G2 is called on every triple of field elements with coordinates in
\* 0..MaxCoord, and the scalars k of k * (X, Y, Z) are the non-zero ones among
\* these elements
MaxCoord == 3

\* sqrt_division_FQ2 is called on every u, v with coordinates in 0..MaxSqrtCoord
MaxSqrtCoord == 6

\* iso_map_G2 is also called on what optimized_swu_G2 returns for every t with
\* coordinates in 0..MaxT
MaxT == 9

(***************************************************************************)
(* The field FQ2 (py_ecc.fields.optimized_bls12_381_FQ2).                  *)
(***************************************************************************)
P == 139

FQ2 == (0 .. P - 1) \X (0 .. P - 1)

FZero == <<0, 0>>

FOne == <<1, 0>>

FAdd(a, b) == <<(a[1] + b[1]) % P, (a[2] + b[2]) % P>>

FSub(a, b) == <<(a[1] - b[1]) % P, (a[2] - b[2]) % P>>

FNeg(a) == <<(0 - a[1]) % P, (0 - a[2]) % P>>

\* (a0 + a1 i)(b0 + b1 i) with i^2 = -1
FMul(a, b) == <<(a[1] * b[1] - a[2] * b[2]) % P, (a[1] * b[2] + a[2] * b[1]) % P>>

\* x ** e : square and multiply, as FQP.__pow__
RECURSIVE FPow(_, _)
FPow(a, e) ==
    IF e = 0 THEN FOne
    ELSE IF e = 1 THEN a
    ELSE IF e % 2 = 0 THEN FPow(FMul(a, a), e \div 2)
    ELSE FMul(FPow(FMul(a, a), e \div 2), a)

\* the sign bit of a field element: the parity of its first non-zero coordinate
sgn0(a) == IF a[1] # 0 THEN a[1] % 2 ELSE a[2] % 2

(***************************************************************************)
(* Constants (.constants).                                                 *)
(***************************************************************************)
ISO_3_A == <<0, 240 % P>>

ISO_3_B == <<1012 % P, 1012 % P>>

ISO_3_Z == <<1, 1>>

P_MINUS_9_DIV_16 == (P * P - 9) \div 16

\* RV1^2 = -1/2: RV1 * (1 + i) is a primitive eighth root of unity
RV1 == 25

\* 1, i, sqrt(i), sqrt(-i) and their negations
POSITIVE_EIGTH_ROOTS_OF_UNITY ==
    << <<1, 0>>, <<0, 1>>, <<RV1, RV1>>, <<RV1, P - RV1>>,
       <<P - 1, 0>>, <<0, P - 1>>, <<P - RV1, P - RV1>>, <<P - RV1, RV1>> >>

\* the squares of the four etas are Z^3 times the four primitive eighth roots
\* of unity (line 102): EV1^2 = -Z^3 * RV1 * (1 + i) and
\* (EV2 * (1 + i))^2 = -Z^3 * RV1 * (1 - i)
EV1 == 10

EV2 == 28

(***************************************************************************)
(* positive_eta_roots                                                      *)
(***************************************************************************)
positive_eta_roots_dup ==
    << <<EV1, 0>>, <<0, EV1>>, <<EV2, EV2>>, <<EV2, EV2>> >>

positive_eta_roots ==
    << <<EV1, 0>>, <<0, EV1>>, <<EV2, EV2>>, <<EV2, (0 - EV2) % P>> >>

(***************************************************************************)
(* sqrt_division_FQ2                                                       *)
(***************************************************************************)
\* lines 80-85: uv^7 * (uv^15)^((p - 9) / 16)
SqrtCandidate_v14(u, v) ==
    LET temp1 == FMul(u, FPow(v, 7))
        temp2 == FMul(temp1, FPow(v, 7))
    IN  FMul(FPow(temp2, P_MINUS_9_DIV_16), temp1)

SqrtCandidate(u, v) ==
    LET temp1 == FMul(u, FPow(v, 7))
        temp2 == FMul(temp1, FPow(v, 8))
    IN  FMul(FPow(temp2, P_MINUS_9_DIV_16), temp1)

\* lines 92-94: (root * sqrt_candidate)^2 * v - u
RootResidue(root, sqrt_candidate, u, v) ==
    FSub(FMul(FPow(FMul(root, sqrt_candidate), 2), v), u)

\* lines 91-97: the loop's body for one root; s = [valid_root, result]
SqrtLoopBody_lastwins(s, root, sqrt_candidate, u, v) ==
    IF RootResidue(root, sqrt_candidate, u, v) = FZero
    THEN [valid_root |-> TRUE, result |-> FMul(root, sqrt_candidate)]
    ELSE s

SqrtLoopBody(s, root, sqrt_candidate, u, v) ==
    IF RootResidue(root, sqrt_candidate, u, v) = FZero /\ ~s.valid_root
    THEN [valid_root |-> TRUE, result |-> FMul(root, sqrt_candidate)]
    ELSE s

RECURSIVE SqrtLoop(_, _, _, _, _)
SqrtLoop(s, k, sqrt_candidate, u, v) ==
    IF k > Len(POSITIVE_EIGTH_ROOTS_OF_UNITY) THEN s
    ELSE SqrtLoop(SqrtLoopBody(s, POSITIVE_EIGTH_ROOTS_OF_UNITY[k], sqrt_candidate, u, v),
                  k + 1, sqrt_candidate, u, v)

\* the whole function: [valid_root, result]
sqrt_division_FQ2(u, v) ==
    LET sqrt_candidate == SqrtCandidate(u, v)
    IN  SqrtLoop([valid_root |-> FALSE, result |-> sqrt_candidate], 1, sqrt_candidate, u, v)

(***************************************************************************)
(* optimized_swu_G2                                                        *)
(***************************************************************************)
\* lines 35-36
ExceptionalCase_none(denominator) == denominator

ExceptionalCase(denominator) ==
    IF denominator = FZero THEN FMul(ISO_3_Z, ISO_3_A) ELSE denominator

\* line 58: the condition under which an eta is accepted
EtaAccept_nosuccess(temp1, success, success_2) ==
    temp1 = FZero /\ ~success_2

EtaAccept(temp1, success, success_2) ==
    temp1 = FZero /\ ~success /\ ~success_2

\* lines 65-66
FinalNumerator_keep(success, numerator, t2) == numerator

FinalNumerator(success, numerator, t2) ==
    IF ~success THEN FMul(FMul(numerator, t2), ISO_3_Z) ELSE numerator

\* lines 68-69
SignFix_never(t, y) == y

SignFix(t, y) == IF sgn0(t) # sgn0(y) THEN FNeg(y) ELSE y

\* lines 27-53: everything before the loop over the etas
SwuSetup(t) ==
    LET t2 == FPow(t, 2)
        temp0 == FMul(ISO_3_Z, t2)
        temp == FAdd(temp0, FPow(temp0, 2))
        denominator0 == FNeg(FMul(ISO_3_A, temp))
        numerator == FMul(ISO_3_B, FAdd(temp, FOne))
        denominator == ExceptionalCase(denominator0)
        v == FPow(denominator, 3)
        u == FAdd(FAdd(FPow(numerator, 3),
                       FMul(FMul(ISO_3_A, numerator), FPow(denominator, 2))),
                  FMul(ISO_3_B, v))
        sq == sqrt_division_FQ2(u, v)
    IN  [t2 |-> t2,
         numerator |-> numerator,
         denominator |-> denominator,
         v |-> v,
         u |-> FMul(FPow(FMul(ISO_3_Z, t2), 3), u),
         success |-> sq.valid_root,
         y |-> sq.result,
         sqrt_candidate |-> FMul(sq.result, FPow(t, 3)),
         success_2 |-> FALSE,
         i |-> 0,
         raised |-> FALSE]

\* lines 56-57: (eta * sqrt_candidate)^2 * v - u
EtaResidue(eta, sqrt_candidate, u, v) ==
    FSub(FMul(FPow(FMul(eta, sqrt_candidate), 2), v), u)

\* lines 54-63: the body of the loop over the etas, for eta number l.i
EtaLoopBody(l) ==
    LET eta == positive_eta_roots[l.i + 1]
        temp1 == EtaResidue(eta, l.sqrt_candidate, l.u, l.v)
    IN  IF EtaAccept(temp1, l.success, l.success_2)
        THEN [l EXCEPT !.y = FMul(l.sqrt_candidate, eta),
                       !.success_2 = TRUE,
                       !.i = l.i + 1]
        ELSE IF l.i = 3 /\ ~l.success /\ ~l.success_2
        THEN [l EXCEPT !.raised = TRUE]
        ELSE [l EXCEPT !.i = l.i + 1]

\* lines 65-69
SwuSelect(t, l) ==
    [l EXCEPT !.numerator = FinalNumerator(l.success, l.numerator, l.t2),
              !.y = SignFix(t, l.y)]

\* lines 71-73
SwuScale(l) == [l EXCEPT !.y = FMul(l.y, l.denominator)]

SwuResult(l) == <<l.numerator, l.y, l.denominator>>

\* the whole function; <<>> stands for the exception of line 63
RECURSIVE EtaLoop(_)
EtaLoop(l) ==
    IF l.raised \/ l.i = Len(positive_eta_roots) THEN l ELSE EtaLoop(EtaLoopBody(l))

optimized_swu_G2(t) ==
    LET l == EtaLoop(SwuSetup(t))
    IN  IF l.raised THEN <<>> ELSE SwuResult(SwuScale(SwuSelect(t, l)))

(***************************************************************************)
(* iso_map_G2                                                              *)
(***************************************************************************)
\* the coefficients of the 3-isogeny E' -> E2, ascending, four per table:
\*   x-numerator    (304(1+i) - 24i x + (12-12i) x^2 + x^3) / 9
\*   x-denominator  -72i + (12-12i) x + x^2          (padded with a zero)
\*   y-numerator    (752(1+i) + 264i x - (18-18i) x^2 - x^3) / 27
\*   y-denominator  -432(1+i) - 216i x + (18-18i) x^2 + x^3
ISO_3_MAP_COEFFICIENTS ==
    << << <<111, 111>>, <<0, 90>>, <<94, 45>>, <<31, 0>> >>,
       << <<0, 67>>, <<12, 127>>, <<1, 0>>, <<0, 0>> >>,
       << <<33, 33>>, <<0, 87>>, <<92, 47>>, <<36, 0>> >>,
       << <<124, 124>>, <<0, 62>>, <<18, 121>>, <<1, 0>> >> >>

\* line 122: one step of Horner's rule, homogenized by a power of z
HornerBody_affine(acc, x, z_power, k_i_j) == FAdd(FMul(acc, x), k_i_j)

HornerBody(acc, x, z_power, k_i_j) == FAdd(FMul(acc, x), FMul(z_power, k_i_j))

\* lines 120-122: j counts the coefficients of reversed(k_i[:-1]) from 0
RECURSIVE Horner(_, _, _, _, _)
Horner(k_i, x, z_powers, j, acc) ==
    IF j > Len(k_i) - 2 THEN acc
    ELSE Horner(k_i, x, z_powers, j + 1,
                HornerBody(acc, x, z_powers[j + 1], k_i[Len(k_i) - 1 - j]))

\* line 125
YDenominatorTimesZ_skip(m, z) == m

YDenominatorTimesZ(m, z) == FMul(m, z)

\* lines 127-129: (x_G2, y_G2, z_G2) from mapped_values
IsoAssemble_xden(m) == <<FMul(m[1], m[2]), FMul(m[2], m[3]), FMul(m[2], m[4])>>

IsoAssemble(m) == <<FMul(m[1], m[4]), FMul(m[2], m[3]), FMul(m[2], m[4])>>

\* lines 115-125: mapped_values
MappedValues(x, y, z) ==
    LET z_powers == <<z, FPow(z, 2), FPow(z, 3)>>
        h == [i \in 1 .. 4 |->
                 Horner(ISO_3_MAP_COEFFICIENTS[i], x, z_powers, 0,
                        ISO_3_MAP_COEFFICIENTS[i][Len(ISO_3_MAP_COEFFICIENTS[i])])]
    IN  <<h[1], h[2], FMul(h[3], y), YDenominatorTimesZ(h[4], z)>>

iso_map_G2(x, y, z) == IsoAssemble(MappedValues(x, y, z))

(***************************************************************************)
(* The three functions as state machines: pc is the place in the function, *)
(* inp its arguments, loc its local variables, ret what it returns.        *)
(***************************************************************************)
NoLoc == [i |-> 0]

NoRet == <<>>

\* field elements with both coordinates in 0..MaxCoord
Box == (0 .. MaxCoord) \X (0 .. MaxCoord)

SqrtBox == (0 .. MaxSqrtCoord) \X (0 .. MaxSqrtCoord)

TBox == (0 .. MaxT) \X (0 .. MaxT)

---------------------------------------------------------------------------
\* optimized_swu_G2(t), for every t of the field
SwuStart ==
    /\ pc = "swu"
    /\ loc' = SwuSetup(inp)
    /\ pc' = "etas"
    /\ UNCHANGED <<inp, ret>>

SwuEta ==
    /\ pc = "etas"
    /\ loc' = EtaLoopBody(loc)
    /\ pc' = IF loc'.raised THEN "raised"
             ELSE IF loc'.i = Len(positive_eta_roots) THEN "select" ELSE "etas"
    /\ UNCHANGED <<inp, ret>>

SwuFinish ==
    /\ pc = "select"
    /\ loc' = SwuSelect(inp, loc)
    /\ pc' = "scale"
    /\ UNCHANGED <<inp, ret>>

SwuReturn ==
    /\ pc = "scale"
    /\ loc' = SwuScale(loc)
    /\ ret' = SwuResult(loc')
    /\ pc' = "done"
    /\ UNCHANGED inp

InitSWU ==
    /\ pc = "swu"
    /\ inp \in FQ2
    /\ loc = NoLoc
    /\ ret = NoRet

NextSWU == SwuStart \/ SwuEta \/ SwuFinish \/ SwuReturn

SpecSWU == InitSWU /\ [][NextSWU]_vars

---------------------------------------------------------------------------
\* sqrt_division_FQ2(u, v), inp = <<u, v>>
SqrtStart ==
    /\ pc = "sqrt"
    /\ LET sqrt_candidate == SqrtCandidate(inp[1], inp[2])
       IN  loc' = [sqrt_candidate |-> sqrt_candidate,
                   s |-> [valid_root |-> FALSE, result |-> sqrt_candidate],
                   k |-> 1]
    /\ pc' = "roots"
    /\ UNCHANGED <<inp, ret>>

SqrtRoot ==
    /\ pc = "roots"
    /\ loc.k <= Len(POSITIVE_EIGTH_ROOTS_OF_UNITY)
    /\ loc' = [loc EXCEPT !.s = SqrtLoopBody(loc.s, POSITIVE_EIGTH_ROOTS_OF_UNITY[loc.k],
                                             loc.sqrt_candidate, inp[1], inp[2]),
                          !.k = loc.k + 1]
    /\ UNCHANGED <<pc, inp, ret>>

SqrtReturn ==
    /\ pc = "roots"
    /\ loc.k > Len(POSITIVE_EIGTH_ROOTS_OF_UNITY)
    /\ ret' = <<loc.s.valid_root, loc.s.result>>
    /\ pc' = "done"
    /\ UNCHANGED <<inp, loc>>

InitSqrt ==
    /\ pc = "sqrt"
    /\ inp \in SqrtBox \X SqrtBox
    /\ loc = NoLoc
    /\ ret = NoRet

NextSqrt == SqrtStart \/ SqrtRoot \/ SqrtReturn

SpecSqrt == InitSqrt /\ [][NextSqrt]_vars

---------------------------------------------------------------------------
\* iso_map_G2(x, y, z), inp = <<x, y, z>>
Scaled(k, pt) == <<FMul(k, pt[1]), FMul(k, pt[2]), FMul(k, pt[3])>>

\* what optimized_swu_G2 returns, in every projective representation k * (X, Y, Z)
SwuPoints ==
    {Scaled(k, optimized_swu_G2(t)) : k \in Box \ {FZero}, t \in TBox}

IsoCall ==
    /\ pc = "iso"
    /\ loc' = [mapped_values |-> MappedValues(inp[1], inp[2], inp[3])]
    /\ ret' = iso_map_G2(inp[1], inp[2], inp[3])
    /\ pc' = "done"
    /\ UNCHANGED inp

InitIso ==
    /\ pc = "iso"
    /\ inp \in (Box \X Box \X Box) \cup SwuPoints
    /\ loc = NoLoc
    /\ ret = NoRet

NextIso == IsoCall

SpecIso == InitIso /\ [][NextIso]_vars

(***************************************************************************)
(* The curves, and what the properties below are stated with.              *)
(***************************************************************************)
\* the twist E2 : y^2 = x^3 + 4(1 + i)
B2 == <<4, 4>>

FInv(a) == FPow(a, P * P - 2)

FDiv(a, b) == FMul(a, FInv(b))

\* y^2 = x^3 + a x + b
OnAffine(x, y, a, b) == FPow(y, 2) = FAdd(FAdd(FPow(x, 3), FMul(a, x)), b)

\* Y^2 Z = X^3 + a X Z^2 + b Z^3
OnProjective(pt, a, b) ==
    FMul(FPow(pt[2], 2), pt[3])
        = FAdd(FAdd(FPow(pt[1], 3), FMul(FMul(a, pt[1]), FPow(pt[3], 2))),
               FMul(b, FPow(pt[3], 3)))

OnIsoCurve(pt) == OnProjective(pt, ISO_3_A, ISO_3_B)

OnTargetCurve(pt) == OnProjective(pt, FZero, B2)

\* Z t^2 + Z^2 t^4 = 0
Exceptional(t) ==
    FAdd(FMul(ISO_3_Z, FPow(t, 2)), FMul(FPow(ISO_3_Z, 2), FPow(t, 4))) = FZero

\* the etas, by number, that pass the test of the alternate branch for input t
EtaMatches(t) ==
    LET s == SwuSetup(t)
        y1 == FMul(s.y, FPow(t, 3))
        u1 == FMul(FPow(FMul(ISO_3_Z, FPow(t, 2)), 3),
                   FAdd(FAdd(FPow(s.numerator, 3),
                             FMul(FMul(ISO_3_A, s.numerator), FPow(s.denominator, 2))),
                        FMul(ISO_3_B, s.v)))
    IN  {k \in 1 .. Len(positive_eta_roots) :
            FSub(FMul(FPow(FMul(FMul(positive_eta_roots[k], s.y), FPow(t, 3)), 2), s.v), u1)
                = FZero}

\* candidate0 = (u v^15)^e * u v^7
Candidate0(u, v) ==
    FMul(FPow(FMul(u, FPow(v, 15)), P_MINUS_9_DIV_16), FMul(u, FPow(v, 7)))

\* the roots, by number, among the first n of the table, that pass the test
RootMatches(n, u, v) ==
    {j \in 1 .. n :
        FSub(FMul(FPow(FMul(POSITIVE_EIGTH_ROOTS_OF_UNITY[j], Candidate0(u, v)), 2), v), u)
            = FZero}

Least(S) == CHOOSE j \in S : \A l \in S : j <= l

\* sum over j of coeff_j x^j z^(d - j), d the degree of the table
RECURSIVE DirectSum(_, _, _, _)
DirectSum(k_i, x, z, j) ==
    IF j > Len(k_i) - 1 THEN FZero
    ELSE FAdd(FMul(FMul(k_i[j + 1], FPow(x, j)), FPow(z, Len(k_i) - 1 - j)),
              DirectSum(k_i, x, z, j + 1))

\* two triples that stand for the same projective point
Proportional(p1, p2) ==
    /\ FMul(p1[1], p2[3]) = FMul(p2[1], p1[3])
    /\ FMul(p1[2], p2[3]) = FMul(p2[2], p1[3])
    /\ FMul(p1[1], p2[2]) = FMul(p2[1], p1[2])

(***************************************************************************)
(* Properties of optimized_swu_G2, under SpecSWU.                          *)
(***************************************************************************)
\* C1: for every t, the returned (X, Y, Z) with Z # 0 lies on the isogenous
\* curve: (Y/Z)^2 = (X/Z)^3 + A (X/Z) + B, and Y^2 Z = X^3 + A X Z^2 + B Z^3.
C1_CurveMembership ==
    (pc = "done" /\ ret[3] # FZero) =>
        /\ OnAffine(FDiv(ret[1], ret[3]), FDiv(ret[2], ret[3]), ISO_3_A, ISO_3_B)
        /\ OnIsoCurve(ret)

\* a point returned through the alternate branch, away from t = 0
C1_Witness ==
    /\ pc = "done"
    /\ ret[3] # FZero
    /\ loc.success_2
    /\ inp # FZero

\* C2: for every t, zero included, the function runs to its end without
\* raising (it is never at the raise of line 63, and until it returns it is
\* at a step of its straight line or within the four turns of the loop), and
\* at its end exactly one of success (the primary square root) and success_2
\* (an eta) holds: never both, never neither.
C2_ExactlyOneBranch ==
    /\ pc # "raised"
    /\ pc \in {"swu", "etas", "select", "scale", "done"}
    /\ pc = "etas" => loc.i \in 0 .. 3 /\ ~loc.raised
    /\ pc = "done" => (loc.success # loc.success_2)

\* the function has returned for t = 0
C2_Witness ==
    /\ pc = "done"
    /\ inp = FZero
    /\ loc.success
    /\ ~loc.success_2

\* C3: for every non-zero t, y after the conditional negation and before the
\* scaling has the sign of t, and it is the affine coordinate Y/Z returned.
C3_SignOfY ==
    /\ (pc = "scale" /\ inp # FZero) => sgn0(inp) = sgn0(loc.y)
    /\ (pc = "done" /\ inp # FZero) => sgn0(inp) = sgn0(FDiv(ret[2], ret[3]))

\* a returned point for a t of sign 1
C3_Witness ==
    /\ pc = "done"
    /\ inp # FZero
    /\ sgn0(inp) = 1
    /\ sgn0(FDiv(ret[2], ret[3])) = 1

\* C4: for every t with Z t^2 + Z^2 t^4 = 0, t = 0 among them, the denominator
\* is replaced by Z * A, the function returns without raising, the third
\* coordinate returned is not zero and the point is on the isogenous curve.
C4_ExceptionalCase ==
    Exceptional(inp) =>
        /\ pc # "raised"
        /\ pc # "swu" => loc.denominator = FMul(ISO_3_Z, ISO_3_A)
        /\ pc = "done" =>
              /\ ret[3] = FMul(ISO_3_Z, ISO_3_A)
              /\ ret[3] # FZero
              /\ OnIsoCurve(ret)

\* the function has returned for an exceptional t
C4_Witness ==
    /\ pc = "done"
    /\ Exceptional(inp)
    /\ ret[3] = FMul(ISO_3_Z, ISO_3_A)

\* C5: for every t whose primary square root fails, exactly one of the four
\* etas passes (eta y0 t^3)^2 v - u1 = 0 with u1 = (Z t^2)^3 u, the returned y
\* is that eta times y0 t^3 up to the sign, the returned numerator is
\* numerator * t^2 * Z, and the point is on the isogenous curve.
C5_EtaFallback ==
    (pc = "done" /\ ~loc.success) =>
        LET s == SwuSetup(inp)
            y1 == FMul(s.y, FPow(inp, 3))
        IN  /\ Cardinality(EtaMatches(inp)) = 1
            /\ \A k \in EtaMatches(inp) :
                  LET y == FMul(positive_eta_roots[k], y1)
                  IN  ret[2] \in {FMul(y, ret[3]), FMul(FNeg(y), ret[3])}
            /\ ret[1] = FMul(FMul(s.numerator, FPow(inp, 2)), ISO_3_Z)
            /\ ret[3] = s.denominator
            /\ OnIsoCurve(ret)

\* a point returned with the last eta of the table
C5_Witness ==
    /\ pc = "done"
    /\ ~loc.success
    /\ EtaMatches(inp) = {Len(positive_eta_roots)}

(***************************************************************************)
(* Properties of sqrt_division_FQ2, under SpecSqrt.                        *)
(***************************************************************************)
\* C6: the result is chosen by first match over the ordered table of roots:
\* after any number of roots tried, and at the return, it is
\* (true, r_k * candidate0) for the least k that has matched so far, whatever
\* matched after it, and (false, candidate0) when none has.
C6_FirstMatchWins ==
    /\ pc = "roots" =>
          LET M == RootMatches(loc.k - 1, inp[1], inp[2])
              c0 == Candidate0(inp[1], inp[2])
          IN  IF M = {}
              THEN loc.s = [valid_root |-> FALSE, result |-> c0]
              ELSE loc.s = [valid_root |-> TRUE,
                            result |-> FMul(POSITIVE_EIGTH_ROOTS_OF_UNITY[Least(M)], c0)]
    /\ pc = "done" =>
          LET M == RootMatches(Len(POSITIVE_EIGTH_ROOTS_OF_UNITY), inp[1], inp[2])
              c0 == Candidate0(inp[1], inp[2])
          IN  IF M = {}
              THEN ret = <<FALSE, c0>>
              ELSE ret = <<TRUE, FMul(POSITIVE_EIGTH_ROOTS_OF_UNITY[Least(M)], c0)>>

\* a return where a later root matched too, with another product
C6_Witness ==
    /\ pc = "done"
    /\ ret[1]
    /\ \E j \in RootMatches(Len(POSITIVE_EIGTH_ROOTS_OF_UNITY), inp[1], inp[2]) :
          FMul(POSITIVE_EIGTH_ROOTS_OF_UNITY[j], Candidate0(inp[1], inp[2])) # ret[2]

\* C8: for every u and every non-zero v, found is true exactly when u/v is a
\* square of the field (some y has y^2 v = u), and then the candidate c
\* returned has c^2 v = u.
C8_SoundAndComplete ==
    (pc = "done" /\ inp[2] # FZero) =>
        /\ ret[1] <=> (\E y \in FQ2 : FMul(FPow(y, 2), inp[2]) = inp[1])
        /\ ret[1] => FMul(FPow(ret[2], 2), inp[2]) = inp[1]

\* a square root found for a non-zero u over a v other than 1
C8_Witness ==
    /\ pc = "done"
    /\ inp[1] # FZero
    /\ inp[2] \notin {FZero, FOne}
    /\ ret[1]
    /\ FMul(FPow(ret[2], 2), inp[2]) = inp[1]

(***************************************************************************)
(* Properties of iso_map_G2, under SpecIso.                                *)
(***************************************************************************)
\* C7: for every projective point (x, y, z) of the isogenous curve, the
\* triple returned satisfies the equation of the target curve.
C7_TargetCurveMembership ==
    (pc = "done" /\ OnIsoCurve(inp)) => OnTargetCurve(ret)

\* a finite point of the target curve returned for a point with z other than 0, 1
C7_Witness ==
    /\ pc = "done"
    /\ OnIsoCurve(inp)
    /\ inp[3] \notin {FZero, FOne}
    /\ ret[3] # FZero

\* C9: for every (x, y, z), each of the four tables is evaluated to the sum
\* over j of coeff_j x^j z^(d-j), the y-numerator is then multiplied by y and
\* the y-denominator by z, and the triple returned is
\* (xNum yDen, yNum xDen, xDen yDen).
C9_HornerIsDirectSum ==
    pc = "done" =>
        LET d == [i \in 1 .. 4 |-> DirectSum(ISO_3_MAP_COEFFICIENTS[i], inp[1], inp[3], 0)]
            xNum == d[1]
            xDen == d[2]
            yNum == FMul(d[3], inp[2])
            yDen == FMul(d[4], inp[3])
        IN  /\ loc.mapped_values = <<xNum, xDen, yNum, yDen>>
            /\ ret = <<FMul(xNum, yDen), FMul(yNum, xDen), FMul(xDen, yDen)>>

\* a call with x, y non-zero and z other than 0 and 1
C9_Witness ==
    /\ pc = "done"
    /\ inp[1] # FZero
    /\ inp[2] # FZero
    /\ inp[3] \notin {FZero, FOne}
    /\ ret[3] # FZero

\* C10: for every (x, y, z) with z # 0 and every non-zero scalar k, the
\* triples returned for (kx, ky, kz) and for (x, y, z) are proportional: all
\* their cross products agree.
C10_ProjectiveWellDefined ==
    (pc = "done" /\ inp[3] # FZero) =>
        \A k \in Box \ {FZero} :
            Proportional(iso_map_G2(FMul(k, inp[1]), FMul(k, inp[2]), FMul(k, inp[3])), ret)

\* a call that returns no zero coordinate, and another triple for a scaled input
C10_Witness ==
    /\ pc = "done"
    /\ inp[3] # FZero
    /\ ret[1] # FZero /\ ret[2] # FZero /\ ret[3] # FZero
    /\ \E k \in Box \ {FZero} :
          iso_map_G2(FMul(k, inp[1]), FMul(k, inp[2]), FMul(k, inp[3])) # ret

====
